---- MODULE Spec2Model ----
(***************************************************************************)
(* A model of HmacKeyManager (src/src/utils/hmac-key-manager.ts): the      *)
(* per-customer key records kept in memoryKeyCache and in the optional     *)
(* storage handler, and the asynchronous operations that create, read,     *)
(* rotate, expire and verify them; and of the RapydClient that reads its   *)
(* signing key from it (src/unnamed/part_007).                             *)
(*                                                                         *)
(* KeyPair objects are JavaScript objects: the cache and the local         *)
(* variables of running calls hold references to them, so the model keeps  *)
(* a heap of objects and references into it.  Every `await` of the source  *)
(* is a point where another call may run; the code between two awaits is   *)
(* one atomic action, a job of the event loop.  A continuation whose       *)
(* promise is settled is a microtask: the microtasks run first in, first   *)
(* out, and before the event loop does anything else.  Between them the    *)
(* event loop runs synchronous code that starts calls and delivers the     *)
(* storage handler's completions.  The storage handler is an external      *)
(* asynchronous store: a request is issued by one action and completes in  *)
(* a later one, taking effect (or failing, without effect) at its          *)
(* completion; it is handed a serialised copy of the record and returns a  *)
(* fresh object.                                                           *)
(***************************************************************************)
EXTENDS Integers, Sequences, FiniteSets, TLC

\* ---------------------------------------------------------------- bounds
MaxSeqCalls == 3    \* calls started in a run with one caller
MaxRotCalls == 7    \* calls started in a run of rotations
MaxTicks == 1       \* clock advances in a run with one caller
MaxFaults == 1      \* storage requests that fail in a run with one caller
MaxConcFaults == 1  \* storage requests that fail in a run with two callers
MaxRandomFaults == 1 \* calls of crypto.randomBytes that throw
MaxRequests == 2    \* requests a client sends
MaxCallStack == 100 \* constructor invocations the call stack has room for

\* ------------------------------------------------------ program constants
MaxPrevious == 5    \* "Limit previous keys to 5"
EmptyKey == 0       \* the empty string: falsy in `newKey || ...`
NoObj == 0          \* `undefined`: no KeyPair object

\* Date.now() counts milliseconds; the model's clock counts ClockUnitMs of
\* them (one hour), so a day is DayMs \div ClockUnitMs clock units.
DayMs == 24 * 60 * 60 * 1000
ClockUnitMs == 60 * 60 * 1000
DaysToClock(days) == days * (DayMs \div ClockUnitMs)
TickStep == DaysToClock(1)
HalfDay == DaysToClock(1) \div 2

Tenants == {"a", "b"}
Callers == {"c1", "c2"}      \* concurrent request paths
ObjIds == 1 .. (Cardinality(Tenants) + Cardinality(Callers))
DayArgs == {0, 1}
Msgs == {"m1", "m2"}

\* `KeyPair | null`: null is a record no KeyPair can equal.
NullKeyPair == [active |-> EmptyKey, previous |-> <<>>, timestamp |-> 0 - 1]

\* A record a previous process left in the store after n rotations: the keys
\* 1 .. BaseKey were issued before this process started.
BaseKey == MaxPrevious + 1
BaseKeyPair(n) ==
    [active |-> BaseKey, previous |-> [i \in 1 .. n |-> BaseKey - i],
     timestamp |-> 0]

VARIABLES
    randomFaults, \* the failures crypto.randomBytes has left to throw
    now,          \* Date.now(), in clock units
    hasHandler,   \* whether setStorageHandler was called
    tenants,      \* the customers they issue calls for
    cache,        \* memoryKeyCache: customerId -> reference (or NoObj)
    heap,         \* the KeyPair objects: reference -> fields
    store,        \* what the storage handler holds: customerId -> record
    nextKey,      \* the next key crypto.randomBytes yields
    budget,       \* the calls each request path may still start
    ticks,        \* clock advances left
    faults,       \* storage requests that may still fail
    pc,           \* each caller's position
    stack,        \* each caller's pending continuations (innermost first)
    op,           \* each caller's public operation
    customerId,   \* each caller's customerId argument
    arg,          \* each caller's other arguments
    keyPair,      \* each caller's local `keyPair` reference
    ioData,       \* the record handed to the storage handler in flight
    result,       \* the value last returned (the call's result when done)
    ready,        \* the microtask queue: callers whose continuation can run
    syncBlock,    \* synchronous code of the event loop is running
    client,       \* the RapydClient: its secretKey, initialized, requests sent
    obs,          \* what each call did, recorded for the properties
    hist          \* what happened to each customer's record, recorded likewise

vars == <<randomFaults, now, hasHandler, tenants, cache, heap, store, nextKey,
          budget, ticks, faults, pc, stack, op, customerId, arg, keyPair, ioData,
          result, ready, syncBlock, client, obs, hist>>

\* ---------------------------------------------------------------- values
NoResult == [kind |-> "none", key |-> EmptyKey, flag |-> FALSE]
KeyResult(k) == [kind |-> "key", key |-> k, flag |-> FALSE]
BoolResult(b) == [kind |-> "bool", key |-> EmptyKey, flag |-> b]
\* A call that ends with an exception thrown to its caller.
ErrorResult == [kind |-> "error", key |-> EmptyKey, flag |-> FALSE]

NoArg == [newKeyGiven |-> FALSE, newKey |-> EmptyKey, rotationDays |-> 0,
          expiryDays |-> 0, data |-> "m1",
          signature |-> [key |-> EmptyKey, data |-> "m1", form |-> "hex"],
          method |-> "", query |-> "", body |-> "undefined",
          expiryGiven |-> TRUE]

Take(s, n) == SubSeq(s, 1, IF Len(s) < n THEN Len(s) ELSE n)
Range(s) == {s[i] : i \in 1 .. Len(s)}
KeysOf(kp) == IF kp = NullKeyPair THEN {} ELSE {kp.active} \cup Range(kp.previous)

\* The cells of h still referenced by the cache c or a local k; the others
\* are garbage and read as null.
Collect(h, c, k) ==
    [o \in ObjIds |->
        IF (\E t \in Tenants : c[t] = o) \/ (\E p \in Callers : k[p] = o)
        THEN h[o] ELSE NullKeyPair]

\* A reference no one holds (p's own local is dead when it asks).
Held(p, o) ==
    (\E t \in Tenants : cache[t] = o) \/ (\E q \in Callers \ {p} : keyPair[q] = o)
FreshObj(p) ==
    CHOOSE o \in ObjIds :
        ~Held(p, o) /\ \A o2 \in ObjIds : ~Held(p, o2) => o <= o2

\* The record the cache holds for t, by value.
Cached(t) == IF cache[t] = NoObj THEN NullKeyPair ELSE heap[cache[t]]

\* Recorded per call: the cached record when the call started, which
\* storage requests failed, what deleteKeyPairIfExpired and
\* checkAndRotateIfDue decided, and the record before and after the call's
\* last rotation.
NoObs == [pre |-> NullKeyPair, getFailed |-> FALSE, createSaveFailed |-> FALSE,
          rotateSaveFailed |-> FALSE, deleteFailed |-> FALSE,
          judged |-> NullKeyPair, expired |-> FALSE, due |-> FALSE,
          rotations |-> 0, before |-> NullKeyPair, after |-> NullKeyPair,
          randomFailed |-> FALSE]

\* A RapydClient as its constructor leaves it (lines 24-28 of the client),
\* and the request it has not signed yet.
ProvidedSecret == 0 - 1
NoRequest == [access_key |-> "", salt |-> "", timestamp |-> 0,
              signature |-> [key |-> EmptyKey, data |-> <<>>, form |-> "hex"],
              toSign |-> <<>>, active |-> EmptyKey]
\* (frames: the constructor invocations on the call stack while
\* `new RapydClient` runs; thrown: it ended in a RangeError.)
NoClient == [secretKey |-> ProvidedSecret, initialized |-> FALSE,
             sent |-> [p \in Callers |-> NoRequest],
             frames |-> 0, thrown |-> FALSE]

\* Recorded per customer: the keys that were active since the cached record
\* was created (newest first; <<>> when that is not known), the keys of the
\* records deleted as expired, and the last rotation while no other
\* operation but verifySignature was started since, and the keys the last two
\* getActiveHmacKey calls returned while no other operation was started on
\* the customer since the first of them.
NoLastRot == [valid |-> FALSE, tenant |-> "a", old |-> EmptyKey, new |-> EmptyKey]
NoHist == [lineage |-> [t \in Tenants |-> <<>>],
           buried |-> [t \in Tenants |-> {}],
           lastRot |-> NoLastRot,
           gets |-> [t \in Tenants |-> <<>>]]

\* ------------------------------------------------------------------ Init
InitCommon ==
    /\ hasHandler \in BOOLEAN
    /\ cache = [t \in Tenants |-> NoObj]
    /\ heap = [o \in ObjIds |-> NullKeyPair]
    /\ \A t \in Tenants : (~hasHandler \/ t \notin tenants) => store[t] = NullKeyPair
    /\ nextKey = BaseKey + 1
    /\ pc = [p \in Callers |-> "idle"]
    /\ stack = [p \in Callers |-> <<>>]
    /\ op = [p \in Callers |-> "none"]
    /\ customerId = [p \in Callers |-> "a"]
    /\ arg = [p \in Callers |-> NoArg]
    /\ keyPair = [p \in Callers |-> NoObj]
    /\ ioData = [p \in Callers |-> NullKeyPair]
    /\ result = [p \in Callers |-> NoResult]
    /\ ready = <<>>
    /\ syncBlock = FALSE
    /\ client = NoClient
    /\ obs = [p \in Callers |-> NoObs]
    /\ hist = NoHist

\* Two request paths issuing one call each; the calls take no time on the
\* clock of days, and the store may hold a record written half a day before.
Init ==
    /\ tenants = {"a"}
    /\ budget = [p \in Callers |-> 1]
    /\ ticks = 0
    /\ faults = MaxConcFaults
    /\ now = HalfDay
    /\ store \in [Tenants -> {NullKeyPair, BaseKeyPair(MaxPrevious)}]
    /\ randomFaults = 0
    /\ InitCommon

\* One request path: each call starts after the one before it returned.
InitSeq ==
    /\ tenants = {"a"}
    /\ budget = [p \in Callers |-> IF p = "c1" THEN MaxSeqCalls ELSE 0]
    /\ ticks = MaxTicks
    /\ faults = MaxFaults
    /\ now = 0
    /\ store \in [Tenants -> {NullKeyPair, BaseKeyPair(0), BaseKeyPair(MaxPrevious)}]
    /\ randomFaults = 0
    /\ InitCommon

\* One request path that rotates, reads and verifies.
InitRot ==
    /\ tenants = {"a"}
    /\ budget = [p \in Callers |-> IF p = "c1" THEN MaxRotCalls ELSE 0]
    /\ ticks = 0
    /\ faults = MaxFaults
    /\ now = 0
    /\ store \in [Tenants -> {NullKeyPair, BaseKeyPair(0)}]
    /\ randomFaults = 0
    /\ InitCommon

\* A RapydClient is constructed for the customer and sends requests; the
\* store may hold a record written half a day, 90 days or 365 days before.
InitClient ==
    /\ tenants = {"a"}
    /\ budget = [p \in Callers |-> IF p = "c1" THEN 1 ELSE MaxRequests]
    /\ ticks = 0
    /\ faults = MaxConcFaults
    /\ now \in {HalfDay, DaysToClock(90), DaysToClock(365)}
    /\ store \in [Tenants -> {NullKeyPair, BaseKeyPair(0)}]
    /\ randomFaults = 0
    /\ InitCommon

\* One request path on a record that may be half a day, 90 days or 365 days
\* old, the expiry threshold left to its default.
InitAged ==
    /\ tenants = {"a"}
    /\ budget = [p \in Callers |-> IF p = "c1" THEN MaxSeqCalls ELSE 0]
    /\ ticks = 0
    /\ faults = MaxFaults
    /\ now \in {HalfDay, DaysToClock(90), DaysToClock(365)}
    /\ store \in [Tenants -> {NullKeyPair, BaseKeyPair(0)}]
    /\ randomFaults = 0
    /\ InitCommon

\* Two request paths issuing one call each, for either of two customers:
\* without a storage handler, or with one that has a record of both.
InitTenants ==
    /\ tenants = Tenants
    /\ budget = [p \in Callers |-> 1]
    /\ ticks = 0
    /\ faults = MaxConcFaults
    /\ now = HalfDay
    /\ store \in {[t \in Tenants |-> NullKeyPair],
                 [t \in Tenants |-> BaseKeyPair(MaxPrevious)]}
    /\ randomFaults = 0
    /\ InitCommon
    /\ hasHandler => store["a"] # NullKeyPair

\* A RapydClient whose key manager has a storage handler, and a
\* crypto.randomBytes that may throw.
InitRandom ==
    /\ tenants = {"a"}
    /\ budget = [p \in Callers |-> IF p = "c1" THEN 1 ELSE MaxRequests]
    /\ ticks = 0
    /\ faults = MaxConcFaults
    /\ randomFaults = MaxRandomFaults
    /\ now \in {HalfDay, DaysToClock(90), DaysToClock(365)}
    /\ store \in [Tenants -> {NullKeyPair, BaseKeyPair(0)}]
    /\ InitCommon
    /\ hasHandler

\* `new RapydClient(accessKey, secretKey)` is about to be evaluated.
InitCtor ==
    /\ tenants = {"a"}
    /\ budget = [p \in Callers |-> 0]
    /\ ticks = 0
    /\ faults = 0
    /\ randomFaults = 0
    /\ now = HalfDay
    /\ store \in [Tenants -> {NullKeyPair, BaseKeyPair(0)}]
    /\ InitCommon

\* ------------------------------------------------------------- scheduling
\* The positions where a caller waits for the storage handler; at any other
\* position of a running call its continuation is a microtask.
IoLabels == {"goc_get", "save_set", "del_set"}
IsJob(l) == l \notin IoLabels \cup {"idle", "done"}
Requeue(q, p) == IF IsJob(pc'[p]) THEN Append(q, p) ELSE q

\* Synchronous code of the event loop runs when no microtask is pending, and
\* goes on until the first microtask runs.
CanCall == ready = <<>> \/ syncBlock

\* It calls a public operation.
Called(p) == ready' = Requeue(ready, p) /\ syncBlock' = TRUE

\* It settles the promise of a request to the storage handler.
CanComplete == CanCall
Completed(p) == ready' = Append(ready, p) /\ syncBlock' = TRUE

\* The first microtask of the queue runs.
IsNext(p) == ready # <<>> /\ Head(ready) = p
Ran(p) == ready' = Requeue(Tail(ready), p) /\ syncBlock' = FALSE

\* ----------------------------------------------------------------- clock
Tick ==
    /\ ticks > 0
    /\ ready = <<>>
    /\ syncBlock' = FALSE
    /\ ticks' = ticks - 1
    /\ now' = now + TickStep
    /\ UNCHANGED <<randomFaults, client, hasHandler, faults, tenants, cache, heap, store, nextKey,
                   budget, pc, stack, op, customerId, arg, keyPair, ioData,
                   result, ready, obs, hist>>

\* --------------------------------------------------- returning from a call
\* `return val` with the continuations stk pending: the innermost one runs
\* next, or the public operation is done.
Return(p, stk, val) ==
    /\ pc' = [pc EXCEPT ![p] = IF stk = <<>> THEN "done" ELSE Head(stk)]
    /\ stack' = [stack EXCEPT ![p] = IF stk = <<>> THEN <<>> ELSE Tail(stk)]
    /\ result' = [result EXCEPT ![p] = val]

\* ------------------------------------------------------ getOrCreateKeyPair
\* Lines 213-220 and saveKeyPair up to its await: a new record with a fresh
\* key is put in the cache, and handed to the storage handler if there is one;
\* without one saveKeyPair returns at once and line 220 awaits its promise.
\* (h is hist as the caller leaves it.)
CreateKeyPair(p, t, stk, h) ==
    LET o == FreshObj(p)
        rec == [active |-> nextKey, previous |-> <<>>, timestamp |-> now]
    IN  /\ nextKey' = nextKey + 1
        /\ cache' = [cache EXCEPT ![t] = o]
        /\ keyPair' = [keyPair EXCEPT ![p] = o]
        /\ heap' = Collect([heap EXCEPT ![o] = rec], cache', keyPair')
        /\ hist' = [h EXCEPT !.lineage[t] = <<rec.active>>]
        /\ IF hasHandler
           THEN /\ pc' = [pc EXCEPT ![p] = "save_set"]
                /\ stack' = [stack EXCEPT ![p] = <<"goc_ret">> \o stk]
                /\ ioData' = [ioData EXCEPT ![p] = rec]
           ELSE /\ pc' = [pc EXCEPT ![p] = "goc_ret"]
                /\ stack' = [stack EXCEPT ![p] = stk]
                /\ ioData' = ioData

\* A faulty variant of getOrCreateKeyPair: the memory cache is not looked up.
GocEnterNoCache(p, t, stk, h) ==
    IF hasHandler
    THEN /\ keyPair' = [keyPair EXCEPT ![p] = NoObj]
         /\ heap' = Collect(heap, cache, keyPair')
         /\ pc' = [pc EXCEPT ![p] = "goc_get"]
         /\ stack' = [stack EXCEPT ![p] = stk]
         /\ hist' = h
         /\ UNCHANGED <<cache, nextKey, ioData>>
    ELSE CreateKeyPair(p, t, stk, h)

\* The call of getOrCreateKeyPair up to its first await (lines 194-202, or to
\* the end without a handler), with the continuations stk pending.
GocEnter(p, t, stk, h) ==
    IF cache[t] # NoObj
    THEN /\ keyPair' = [keyPair EXCEPT ![p] = cache[t]]
         /\ heap' = Collect(heap, cache, keyPair')
         /\ pc' = [pc EXCEPT ![p] = Head(stk)]
         /\ stack' = [stack EXCEPT ![p] = Tail(stk)]
         /\ hist' = h
         /\ UNCHANGED <<cache, nextKey, ioData>>
    ELSE IF hasHandler
    THEN /\ keyPair' = [keyPair EXCEPT ![p] = NoObj]
         /\ heap' = Collect(heap, cache, keyPair')
         /\ pc' = [pc EXCEPT ![p] = "goc_get"]
         /\ stack' = [stack EXCEPT ![p] = stk]
         /\ hist' = h
         /\ UNCHANGED <<cache, nextKey, ioData>>
    ELSE CreateKeyPair(p, t, stk, h)

\* The keys that were active since a record read from the store was created:
\* known when its previous list never overflowed.
LineageOf(kp) ==
    IF Len(kp.previous) < MaxPrevious THEN <<kp.active>> \o kp.previous ELSE <<>>

\* storageHandler('get') returns the record the store holds.
GocGetFound(p) ==
    /\ CanComplete
    /\ pc[p] = "goc_get"
    /\ store[customerId[p]] # NullKeyPair
    /\ ioData' = [ioData EXCEPT ![p] = store[customerId[p]]]
    /\ pc' = [pc EXCEPT ![p] = "goc_found"]
    /\ UNCHANGED <<randomFaults, client, now, hasHandler, faults, tenants, cache, heap, store,
                   nextKey, budget, ticks, stack, op, customerId, arg, keyPair,
                   result, obs, hist>>
    /\ Completed(p)

\* storageHandler('get') returns null.
GocGetMissing(p) ==
    /\ CanComplete
    /\ pc[p] = "goc_get"
    /\ store[customerId[p]] = NullKeyPair
    /\ pc' = [pc EXCEPT ![p] = "goc_absent"]
    /\ UNCHANGED <<randomFaults, client, now, hasHandler, faults, tenants, cache, heap, store,
                   nextKey, budget, ticks, stack, op, customerId, arg, keyPair,
                   ioData, result, obs, hist>>
    /\ Completed(p)

\* storageHandler('get') throws.
GocGetFailed(p) ==
    /\ CanComplete
    /\ pc[p] = "goc_get"
    /\ faults > 0
    /\ faults' = faults - 1
    /\ pc' = [pc EXCEPT ![p] = "goc_absent"]
    /\ obs' = [obs EXCEPT ![p].getFailed = TRUE]
    /\ UNCHANGED <<randomFaults, client, now, hasHandler, tenants, cache, heap, store, nextKey,
                   budget, ticks, stack, op, customerId, arg, keyPair, ioData,
                   result, hist>>
    /\ Completed(p)

\* Lines 203-206: the record returned is cached and returned.
GocFoundK(p) ==
    /\ IsNext(p)
    /\ pc[p] = "goc_found"
    /\ LET o == FreshObj(p)
       IN  /\ cache' = [cache EXCEPT ![customerId[p]] = o]
           /\ keyPair' = [keyPair EXCEPT ![p] = o]
           /\ heap' = Collect([heap EXCEPT ![o] = ioData[p]], cache', keyPair')
    /\ ioData' = [ioData EXCEPT ![p] = NullKeyPair]
    /\ pc' = [pc EXCEPT ![p] = Head(stack[p])]
    /\ stack' = [stack EXCEPT ![p] = Tail(stack[p])]
    /\ hist' = [hist EXCEPT !.lineage[customerId[p]] = LineageOf(ioData[p])]
    /\ UNCHANGED <<randomFaults, client, now, hasHandler, faults, tenants, store, nextKey, budget,
                   ticks, op, customerId, arg, result, obs>>
    /\ Ran(p)

\* Lines 207-220: no record was returned, or the failure was caught and
\* logged; a new record is created.
GocAbsentK(p) ==
    /\ IsNext(p)
    /\ pc[p] = "goc_absent"
    /\ CreateKeyPair(p, customerId[p], stack[p], hist)
    /\ UNCHANGED <<randomFaults, client, now, hasHandler, faults, tenants, store, budget, ticks, op,
                   customerId, arg, result, obs>>
    /\ Ran(p)

\* Lines 220-222: `return newKeyPair` once the await of saveKeyPair's promise
\* resumes.
GocRet(p) ==
    /\ IsNext(p)
    /\ pc[p] = "goc_ret"
    /\ pc' = [pc EXCEPT ![p] = Head(stack[p])]
    /\ stack' = [stack EXCEPT ![p] = Tail(stack[p])]
    /\ UNCHANGED <<randomFaults, client, now, hasHandler, faults, tenants, cache, heap, store,
                   nextKey, budget, ticks, op, customerId, arg, keyPair, ioData,
                   result, obs, hist>>
    /\ Ran(p)

\* ------------------------------------------------------------- saveKeyPair
\* storageHandler('set', customerId, keyPair) is acknowledged.
SaveSetOk(p) ==
    /\ CanComplete
    /\ pc[p] = "save_set"
    /\ store' = [store EXCEPT ![customerId[p]] = ioData[p]]
    /\ ioData' = [ioData EXCEPT ![p] = NullKeyPair]
    /\ pc' = [pc EXCEPT ![p] = "save_ret"]
    /\ UNCHANGED <<randomFaults, client, now, hasHandler, faults, tenants, cache, heap, nextKey,
                   budget, ticks, stack, op, customerId, arg, keyPair, result,
                   obs, hist>>
    /\ Completed(p)

\* storageHandler('set', customerId, keyPair) throws.
SaveSetFailed(p) ==
    /\ CanComplete
    /\ pc[p] = "save_set"
    /\ faults > 0
    /\ faults' = faults - 1
    /\ ioData' = [ioData EXCEPT ![p] = NullKeyPair]
    /\ obs' = IF Head(stack[p]) = "goc_ret"
              THEN [obs EXCEPT ![p].createSaveFailed = TRUE]
              ELSE [obs EXCEPT ![p].rotateSaveFailed = TRUE]
    /\ pc' = [pc EXCEPT ![p] = "save_ret"]
    /\ UNCHANGED <<randomFaults, client, now, hasHandler, tenants, cache, heap, store, nextKey,
                   budget, ticks, stack, op, customerId, arg, keyPair, result,
                   hist>>
    /\ Completed(p)

\* Lines 237-241: saveKeyPair returns, a failure caught and logged.
SaveRet(p) ==
    /\ IsNext(p)
    /\ pc[p] = "save_ret"
    /\ pc' = [pc EXCEPT ![p] = Head(stack[p])]
    /\ stack' = [stack EXCEPT ![p] = Tail(stack[p])]
    /\ UNCHANGED <<randomFaults, client, now, hasHandler, faults, tenants, cache, heap, store,
                   nextKey, budget, ticks, op, customerId, arg, keyPair, ioData,
                   result, obs, hist>>
    /\ Ran(p)

\* ------------------------------------------------------- starting a call
\* The request paths are interchangeable: the first call is c1's.
CanStart(p) ==
    /\ pc[p] \in {"idle", "done"}
    /\ budget[p] > 0
    /\ p = "c2" => pc["c1"] # "idle"

\* The record of earlier calls when the operation name starts on customer t.
HistAtBegin(name, t) ==
    LET h == IF name = "verifySignature" THEN hist
             ELSE [hist EXCEPT !.lastRot = NoLastRot]
    IN  IF name = "getActiveHmacKey" THEN h ELSE [h EXCEPT !.gets[t] = <<>>]

\* The last two elements of a sequence.
LastTwo(s) == IF Len(s) <= 2 THEN s ELSE SubSeq(s, Len(s) - 1, Len(s))

\* What every start of a public operation does.
Begin(p, name, t, a, stk) ==
    /\ CanStart(p)
    /\ CanCall
    /\ budget' = [budget EXCEPT ![p] = @ - 1]
    /\ op' = [op EXCEPT ![p] = name]
    /\ customerId' = [customerId EXCEPT ![p] = t]
    /\ arg' = [arg EXCEPT ![p] = a]
    /\ result' = [result EXCEPT ![p] = NoResult]
    /\ obs' = [obs EXCEPT ![p] = [NoObs EXCEPT !.pre = Cached(t)]]
    /\ GocEnter(p, t, stk, HistAtBegin(name, t))
    /\ Called(p)
    /\ UNCHANGED <<randomFaults, client, now, hasHandler, faults, tenants, store, ticks>>

\* -------------------------------------------------------- getActiveHmacKey
StartGetActive(p) ==
    \E t \in tenants : Begin(p, "getActiveHmacKey", t, NoArg, <<"get_k">>)

\* Line 61: `return keyPair.active`.
GetActiveK(p) ==
    /\ IsNext(p)
    /\ pc[p] = "get_k"
    /\ Return(p, stack[p], KeyResult(heap[keyPair[p]].active))
    /\ keyPair' = [keyPair EXCEPT ![p] = NoObj]
    /\ heap' = Collect(heap, cache, keyPair')
    /\ hist' = [hist EXCEPT !.gets[customerId[p]] =
                                LastTwo(Append(@, heap[keyPair[p]].active))]
    /\ UNCHANGED <<randomFaults, client, now, hasHandler, faults, tenants, cache, store, nextKey,
                   budget, ticks, op, customerId, arg, ioData, obs>>
    /\ Ran(p)

\* -------------------------------------------------- deleteKeyPairIfExpired
StartDelete(p) ==
    \E t \in tenants, e \in DayArgs :
        Begin(p, "deleteKeyPairIfExpired", t, [NoArg EXCEPT !.expiryDays = e],
              <<"del_k">>)

\* deleteKeyPairIfExpired(customerId): expiryDays takes the default of the
\* parameter list (line 69); the doc comment above it (line 66) names 365.
DeleteExpiryDays == 90
DocumentedExpiryDays == 365
StartDeleteDefault(p) ==
    \E t \in tenants :
        Begin(p, "deleteKeyPairIfExpired", t,
              [NoArg EXCEPT !.expiryDays = DeleteExpiryDays,
                            !.expiryGiven = FALSE],
              <<"del_k">>)

\* Line 74: the record is expired.
Expired(kp, expiryDays) == now - kp.timestamp >= DaysToClock(expiryDays)

\* The keys of a deleted record.
Bury(h, t, kp) == [h EXCEPT !.buried[t] = @ \cup KeysOf(kp)]

\* Lines 71-81 (or to the end): after getOrCreateKeyPair returned.
DelK(p) ==
    /\ IsNext(p)
    /\ pc[p] = "del_k"
    /\ LET t == customerId[p]
           kp == heap[keyPair[p]]
       IN  IF Expired(kp, arg[p].expiryDays)
           THEN /\ cache' = [cache EXCEPT ![t] = NoObj]
                /\ obs' = [obs EXCEPT ![p].judged = kp, ![p].expired = TRUE]
                /\ IF hasHandler
                   THEN /\ pc' = [pc EXCEPT ![p] = "del_set"]
                        /\ hist' = [hist EXCEPT !.lineage[t] = <<>>]
                        /\ UNCHANGED <<stack, result>>
                   ELSE /\ Return(p, stack[p], BoolResult(TRUE))
                        /\ hist' = Bury([hist EXCEPT !.lineage[t] = <<>>], t, kp)
           ELSE /\ Return(p, stack[p], BoolResult(FALSE))
                /\ obs' = [obs EXCEPT ![p].judged = kp, ![p].expired = FALSE]
                /\ UNCHANGED <<cache, hist>>
    /\ keyPair' = [keyPair EXCEPT ![p] = NoObj]
    /\ heap' = Collect(heap, cache', keyPair')
    /\ UNCHANGED <<randomFaults, client, now, hasHandler, faults, tenants, store, nextKey, budget,
                   ticks, op, customerId, arg, ioData>>
    /\ Ran(p)

\* A faulty variant of line 81: the handler drops every customer's record.
DelSetOkAll(p) ==
    /\ CanComplete
    /\ pc[p] = "del_set"
    /\ store' = [t \in Tenants |-> NullKeyPair]
    /\ pc' = [pc EXCEPT ![p] = "del_ok"]
    /\ hist' = Bury(hist, customerId[p], obs[p].judged)
    /\ UNCHANGED <<randomFaults, client, now, hasHandler, faults, tenants, cache, heap, nextKey,
                   budget, ticks, stack, op, customerId, arg, keyPair, ioData,
                   result, obs>>
    /\ Completed(p)

\* storageHandler('set', customerId) is acknowledged: the record is gone.
DelSetOk(p) ==
    /\ CanComplete
    /\ pc[p] = "del_set"
    /\ store' = [store EXCEPT ![customerId[p]] = NullKeyPair]
    /\ pc' = [pc EXCEPT ![p] = "del_ok"]
    /\ hist' = Bury(hist, customerId[p], obs[p].judged)
    /\ UNCHANGED <<randomFaults, client, now, hasHandler, faults, tenants, cache, heap, nextKey,
                   budget, ticks, stack, op, customerId, arg, keyPair, ioData,
                   result, obs>>
    /\ Completed(p)

\* storageHandler('set', customerId) throws.
DelSetFailed(p) ==
    /\ CanComplete
    /\ pc[p] = "del_set"
    /\ faults > 0
    /\ faults' = faults - 1
    /\ pc' = [pc EXCEPT ![p] = "del_failed"]
    /\ obs' = [obs EXCEPT ![p].deleteFailed = TRUE]
    /\ UNCHANGED <<randomFaults, client, now, hasHandler, tenants, cache, heap, store, nextKey,
                   budget, ticks, stack, op, customerId, arg, keyPair, ioData,
                   result, hist>>
    /\ Completed(p)

\* Lines 82-88: `return true`, or the failure caught and logged and
\* `return false`.
DelRet(p) ==
    /\ IsNext(p)
    /\ pc[p] \in {"del_ok", "del_failed"}
    /\ Return(p, stack[p], BoolResult(pc[p] = "del_ok"))
    /\ UNCHANGED <<randomFaults, client, now, hasHandler, faults, tenants, cache, heap, store,
                   nextKey, budget, ticks, op, customerId, arg, keyPair, ioData,
                   obs, hist>>
    /\ Ran(p)

\* ----------------------------------------------------------- rotateHmacKey
NewKeyArgs ==
    {[given |-> FALSE, key |-> EmptyKey],      \* rotateHmacKey(id)
     [given |-> TRUE, key |-> EmptyKey],       \* rotateHmacKey(id, "")
     [given |-> TRUE, key |-> BaseKey]}        \* rotateHmacKey(id, key)

StartRotate(p) ==
    \E t \in tenants, k \in NewKeyArgs :
        Begin(p, "rotateHmacKey", t,
              [NoArg EXCEPT !.newKeyGiven = k.given, !.newKey = k.key],
              <<"rot_k">>)

\* Faulty variants of lines 103-108: no limit on previous; the active key
\* pushed at the tail; a limit one short of MaxPrevious.
PushPreviousUnbounded(kp) == <<kp.active>> \o kp.previous
PushPreviousAtTail(kp) == Take(kp.previous \o <<kp.active>>, MaxPrevious)
PushPreviousShort(kp) == Take(<<kp.active>> \o kp.previous, MaxPrevious - 1)

\* Lines 103-108: the active key goes to the head of previous, which keeps
\* its first MaxPrevious entries.
PushPrevious(kp) == Take(<<kp.active>> \o kp.previous, MaxPrevious)

\* Line 111: `newKey || this.generateHmacKey()`.
NewActive(newKey) == IF newKey # EmptyKey THEN newKey ELSE nextKey

\* Lines 103-112 on the fields of one KeyPair.
Rotated(kp, newKey) ==
    [active |-> NewActive(newKey), previous |-> PushPrevious(kp),
     timestamp |-> now]

\* Lines 103-115 and saveKeyPair up to its await: the object
\* getOrCreateKeyPair returned is changed in place, put in the cache, and
\* handed to the storage handler if there is one.
RotK(p) ==
    /\ IsNext(p)
    /\ pc[p] = "rot_k"
    /\ LET t == customerId[p]
           o == keyPair[p]
           rec == Rotated(heap[o], arg[p].newKey)
       IN  /\ heap' = [heap EXCEPT ![o] = rec]
           /\ cache' = [cache EXCEPT ![t] = o]
           /\ nextKey' = IF rec.active = nextKey THEN nextKey + 1 ELSE nextKey
           /\ ioData' = [ioData EXCEPT ![p] = IF hasHandler THEN rec
                                               ELSE NullKeyPair]
           /\ pc' = [pc EXCEPT ![p] = IF hasHandler THEN "save_set"
                                       ELSE "rot_ret"]
           /\ stack' = [stack EXCEPT ![p] = IF hasHandler
                                             THEN <<"rot_ret">> \o @ ELSE @]
           /\ obs' = [obs EXCEPT ![p].rotations = @ + 1,
                                 ![p].before = heap[o],
                                 ![p].after = rec]
           /\ hist' = [hist EXCEPT
                         !.lineage[t] = IF cache[t] = o /\ @ # <<>>
                                        THEN <<rec.active>> \o @ ELSE <<>>,
                         !.buried[t] = @ \ {arg[p].newKey},
                         !.lastRot = [valid |-> TRUE, tenant |-> t,
                                      old |-> heap[o].active,
                                      new |-> rec.active]]
    /\ UNCHANGED <<randomFaults, client, now, hasHandler, faults, tenants, store, budget, ticks,
                   op, customerId, arg, keyPair, result>>
    /\ Ran(p)

\* Lines 115-117: `return keyPair.active`, read once the await of
\* saveKeyPair's promise resumes.
RotRet(p) ==
    /\ IsNext(p)
    /\ pc[p] = "rot_ret"
    /\ Return(p, stack[p], KeyResult(heap[keyPair[p]].active))
    /\ keyPair' = [keyPair EXCEPT ![p] = NoObj]
    /\ heap' = Collect(heap, cache, keyPair')
    /\ UNCHANGED <<randomFaults, client, now, hasHandler, faults, tenants, cache, store, nextKey,
                   budget, ticks, op, customerId, arg, ioData, obs, hist>>
    /\ Ran(p)

\* ----------------------------------------------------- checkAndRotateIfDue
StartCheck(p) ==
    \E t \in tenants, r \in DayArgs, e \in DayArgs :
        Begin(p, "checkAndRotateIfDue", t,
              [NoArg EXCEPT !.rotationDays = r, !.expiryDays = e],
              <<"del_k", "car_del_k">>)

\* Lines 131-134: after deleteKeyPairIfExpired returned.
CarDelK(p) ==
    /\ IsNext(p)
    /\ pc[p] = "car_del_k"
    /\ IF result[p].flag
       THEN /\ Return(p, stack[p], BoolResult(FALSE))
            /\ UNCHANGED <<cache, heap, nextKey, keyPair, ioData, hist>>
       ELSE /\ GocEnter(p, customerId[p], <<"car_goc_k">> \o stack[p], hist)
            /\ UNCHANGED result
    /\ UNCHANGED <<randomFaults, client, now, hasHandler, faults, tenants, store, budget, ticks, op,
                   customerId, arg, obs>>
    /\ Ran(p)

\* Line 138: rotation is due.
RotationDue(kp, rotationDays) == now - kp.timestamp >= DaysToClock(rotationDays)

\* Lines 135-143: after getOrCreateKeyPair returned.
CarGocK(p) ==
    /\ IsNext(p)
    /\ pc[p] = "car_goc_k"
    /\ IF RotationDue(heap[keyPair[p]], arg[p].rotationDays)
       THEN /\ GocEnter(p, customerId[p], <<"rot_k", "car_rot_k">> \o stack[p],
                        hist)
            /\ obs' = [obs EXCEPT ![p].due = TRUE]
            /\ UNCHANGED result
       ELSE /\ Return(p, stack[p], BoolResult(FALSE))
            /\ keyPair' = [keyPair EXCEPT ![p] = NoObj]
            /\ heap' = Collect(heap, cache, keyPair')
            /\ UNCHANGED <<cache, nextKey, ioData, obs, hist>>
    /\ UNCHANGED <<randomFaults, client, now, hasHandler, faults, tenants, store, budget, ticks, op,
                   customerId, arg>>
    /\ Ran(p)

\* Line 140: `return true` after rotateHmacKey returned.
CarRotK(p) ==
    /\ IsNext(p)
    /\ pc[p] = "car_rot_k"
    /\ Return(p, stack[p], BoolResult(TRUE))
    /\ UNCHANGED <<randomFaults, client, now, hasHandler, faults, tenants, cache, heap, store,
                   nextKey, budget, ticks, op, customerId, arg, keyPair, ioData,
                   obs, hist>>
    /\ Ran(p)

\* --------------------------------------------------------- verifySignature
\* crypto.createHmac('sha256', key).update(data).digest('hex'): distinct
\* (key, data) give distinct digests.
HmacHex(key, data) == [key |-> key, data |-> data, form |-> "hex"]
\* What a caller may hand in as the signature string: the 64 lower-case hex
\* digits, the same digits in upper case, the digits cut short by one byte,
\* or a string that does not start with a hex digit.
SigForms == {"hex", "upper", "truncated", "malformed"}
DigestBytes == 32

\* Buffer.from(s, 'hex'): the bytes and how many there are.  Decoding takes
\* hex digits of either case and stops at the first character that is not
\* one, so a malformed string decodes to the empty buffer.
FromHex(s) ==
    IF s.form = "malformed" THEN [mac |-> <<>>, length |-> 0]
    ELSE [mac |-> <<s.key, s.data>>,
          length |-> IF s.form = "truncated" THEN DigestBytes - 1
                     ELSE DigestBytes]

\* crypto.timingSafeEqual(a, b) throws when the lengths differ.
TimingSafeEqualThrows(a, b) == a.length # b.length
TimingSafeEqual(a, b) == a.mac = b.mac

\* A faulty variant of one try block: the decoded lengths are not compared.
KeyMatchesNoLength(key, data, signature) ==
    TimingSafeEqual(FromHex(HmacHex(key, data)), FromHex(signature))

\* One try block of verifySignature: the key matches the signature.
KeyMatches(key, data, signature) ==
    LET a == FromHex(HmacHex(key, data))
        b == FromHex(signature)
    IN  ~TimingSafeEqualThrows(a, b) /\ TimingSafeEqual(a, b)

\* A faulty variant of lines 160-182: the previous keys are not tried.
VerifyActiveOnly(kp, data, signature) == KeyMatches(kp.active, data, signature)

\* Lines 160-182 on the fields of one KeyPair.
Verify(kp, data, signature) ==
    \/ KeyMatches(kp.active, data, signature)
    \/ \E i \in 1 .. Len(kp.previous) : KeyMatches(kp.previous[i], data, signature)

\* A faulty variant of verifySignature: the comparison with the active key is
\* outside a try block, so its exception reaches the caller.
VerifyResultUncaught(kp, data, signature) ==
    IF TimingSafeEqualThrows(FromHex(HmacHex(kp.active, data)),
                             FromHex(signature))
    THEN ErrorResult
    ELSE BoolResult(Verify(kp, data, signature))

\* What verifySignature hands its caller: each comparison is in its own try
\* block whose catch goes on to the next key (lines 166-168, 177-179), so
\* the call ends at a return statement, with true or false.
VerifyResult(kp, data, signature) == BoolResult(Verify(kp, data, signature))

\* The signatures callers present for the data "m1": made for it with the
\* active key, the newest or the oldest previous key, a key that was active
\* before, or a key that never was (the empty one), or made with the active
\* key for other data, or made with the active key and handed in in any of
\* the forms of SigForms.
Signatures(t) ==
    LET kp == IF cache[t] # NoObj THEN Cached(t) ELSE store[t]
        n == Len(kp.previous)
        keys == {kp.active, EmptyKey} \cup Range(hist.lineage[t])
                \cup (IF n = 0 THEN {} ELSE {kp.previous[1], kp.previous[n]})
    IN  {HmacHex(k, "m1") : k \in keys}
            \cup {HmacHex(kp.active, d) : d \in Msgs}
            \cup {[HmacHex(kp.active, "m1") EXCEPT !.form = f] : f \in SigForms}

StartVerify(p) ==
    \E t \in tenants :
        \E s \in Signatures(t) :
            Begin(p, "verifySignature", t, [NoArg EXCEPT !.signature = s],
                  <<"ver_k">>)

VerK(p) ==
    /\ IsNext(p)
    /\ pc[p] = "ver_k"
    /\ Return(p, stack[p],
              VerifyResult(heap[keyPair[p]], arg[p].data, arg[p].signature))
    /\ keyPair' = [keyPair EXCEPT ![p] = NoObj]
    /\ heap' = Collect(heap, cache, keyPair')
    /\ UNCHANGED <<randomFaults, client, now, hasHandler, faults, tenants, cache, store, nextKey,
                   budget, ticks, op, customerId, arg, ioData, obs, hist>>
    /\ Ran(p)

\* ------------------------------------------------------------- RapydClient
\* The client of src/unnamed/part_007.  Its constructor calls
\* initializeKeyManager without awaiting it (line 52): that call is c1's.
\* Requests are c2's: the interceptor of lines 37-43 awaits another
\* initializeKeyManager while `initialized` is false and then signs.
AccessKey == "a"
ClientRotationDays == 90
CheckExpiryDays == 365

\* Strings are sequences of pieces, so that template literals concatenate:
\* a piece of text, a key in hex, a number in decimal.  '' has no pieces.
Str(text) == IF text = "" THEN <<>> ELSE <<[text |-> text, num |-> 0]>>
KeyStr(k) == <<[text |-> "key", num |-> k]>>
NumStr(n) == <<[text |-> "decimal", num |-> n]>>

\* What callers put in a request config: no method, one in lower or in upper
\* case; a url with or without a query; data or none.
Methods == {"", "get", "POST"}
Queries == {"", "?limit=2"}
Bodies == {"undefined", "object"}
Salts == {"0a1b2c3d"}
RequestPath == "/v1/payments"

\* String.prototype.toUpperCase on the methods above.
ToUpperCase(m) == CASE m = "get" -> "GET" [] m = "post" -> "POST" [] OTHER -> m
\* Line 83: `config.method?.toUpperCase() || 'GET'`.
HttpMethod(m) == IF ToUpperCase(m) = "" THEN "GET" ELSE ToUpperCase(m)
\* Line 84: `new URL(config.url, baseURL).pathname` leaves the query out.
Pathname(path, query) == path
\* Line 85: `config.data ? JSON.stringify(config.data) : ''`.
JsonStringify(data) == "{\"amount\":100}"
BodyOf(data) == IF data = "undefined" THEN "" ELSE JsonStringify(data)
\* Line 82: `Math.floor(Date.now() / 1000)`.
Seconds(clock) == clock * (ClockUnitMs \div 1000)

\* Line 87, the template literal (line 51 of src/src/index.ts is the same
\* concatenation).
ToSign(httpMethod, requestPath, salt, timestamp, accessKey, secretKey, body) ==
    Str(httpMethod) \o Str(requestPath) \o Str(salt) \o NumStr(timestamp)
        \o Str(accessKey) \o KeyStr(secretKey) \o Str(body)

\* The customer's active key as the key manager holds it.
ManagerKey(t) == IF cache[t] # NoObj THEN Cached(t).active ELSE store[t].active

\* signRequest (lines 79-96) on a config, with the salt generateSalt drew:
\* the headers it sets, the string it signed and, for the properties, the
\* key manager's active key at that moment.
SignRequest(a, salt) ==
    LET timestamp == Seconds(now)
        toSign == ToSign(HttpMethod(a.method), Pathname(RequestPath, a.query),
                         salt, timestamp, AccessKey, client.secretKey,
                         BodyOf(a.body))
    IN  [access_key |-> AccessKey, salt |-> salt, timestamp |-> timestamp,
         signature |-> HmacHex(client.secretKey, toSign),
         toSign |-> toSign, active |-> ManagerKey(AccessKey)]

\* Line 66: rotationDays is 90, expiryDays the default of line 128.
InitArgs == [NoArg EXCEPT !.rotationDays = ClientRotationDays,
                          !.expiryDays = CheckExpiryDays]

\* Line 52: the constructor's call, up to the first await of line 58.
StartInit(p) ==
    /\ p = "c1"
    /\ AccessKey \in tenants
    /\ Begin(p, "initializeKeyManager", AccessKey, InitArgs,
             <<"get_k", "init_key_k">>)

\* Lines 37-43: the interceptor runs for a request.
StartRequest(p) ==
    /\ p = "c2"
    /\ AccessKey \in tenants
    /\ CanStart(p)
    /\ CanCall
    /\ budget' = [budget EXCEPT ![p] = @ - 1]
    /\ op' = [op EXCEPT ![p] = "request"]
    /\ customerId' = [customerId EXCEPT ![p] = AccessKey]
    /\ \E m \in Methods, q \in Queries, b \in Bodies :
           arg' = [arg EXCEPT ![p] = [InitArgs EXCEPT !.method = m,
                                                      !.query = q,
                                                      !.body = b]]
    /\ result' = [result EXCEPT ![p] = NoResult]
    /\ obs' = [obs EXCEPT ![p] = [NoObs EXCEPT !.pre = Cached(AccessKey)]]
    /\ IF client.initialized
       THEN /\ pc' = [pc EXCEPT ![p] = "sign_k"]
            /\ stack' = [stack EXCEPT ![p] = <<>>]
            /\ hist' = HistAtBegin("request", AccessKey)
            /\ UNCHANGED <<cache, heap, nextKey, keyPair, ioData>>
       ELSE GocEnter(p, AccessKey, <<"get_k", "init_key_k", "sign_k">>,
                     HistAtBegin("request", AccessKey))
    /\ Called(p)
    /\ UNCHANGED <<randomFaults, client, now, hasHandler, faults, tenants, store, ticks>>

\* Lines 59-66: the key getActiveHmacKey returned becomes secretKey, then
\* checkAndRotateIfDue(accessKey, 90) is called.
InitKeyK(p) ==
    /\ IsNext(p)
    /\ pc[p] = "init_key_k"
    /\ client' = [client EXCEPT !.secretKey = result[p].key]
    /\ GocEnter(p, customerId[p],
                <<"del_k", "car_del_k", "init_done_k">> \o stack[p], hist)
    /\ UNCHANGED <<randomFaults, now, hasHandler, faults, tenants, store, budget, ticks, op,
                   customerId, arg, result, obs>>
    /\ Ran(p)

\* Line 68: `this.initialized = true`.
InitDoneK(p) ==
    /\ IsNext(p)
    /\ pc[p] = "init_done_k"
    /\ client' = [client EXCEPT !.initialized = TRUE]
    /\ Return(p, stack[p], result[p])
    /\ UNCHANGED <<randomFaults, now, hasHandler, faults, tenants, cache, heap, store,
                   nextKey, budget, ticks, op, customerId, arg, keyPair, ioData,
                   obs, hist>>
    /\ Ran(p)

\* Line 42: `return this.signRequest(config)`.
SignK(p) ==
    /\ IsNext(p)
    /\ pc[p] = "sign_k"
    /\ \E salt \in Salts :
           client' = [client EXCEPT !.sent[p] = SignRequest(arg[p], salt)]
    /\ Return(p, stack[p], NoResult)
    /\ UNCHANGED <<randomFaults, now, hasHandler, faults, tenants, cache, heap, store,
                   nextKey, budget, ticks, op, customerId, arg, keyPair, ioData,
                   obs, hist>>
    /\ Ran(p)

\* ------------------------------------------ crypto.randomBytes throws
\* The continuations inside the try block of initializeKeyManager (lines
\* 56-68 of the client).
InTry == {"init_key_k", "init_done_k"}
Caught(stk) == \E i \in 1..Len(stk) : stk[i] \in InTry
\* What is left of the continuations stk once an exception unwound them:
\* those after the catch of lines 69-72 of the client when
\* initializeKeyManager is among the callers, none otherwise.
Unwound(stk) ==
    IF Caught(stk)
    THEN SubSeq(stk, (CHOOSE i \in 1..Len(stk) : stk[i] \in InTry) + 1, Len(stk))
    ELSE <<>>

\* An exception thrown with the continuations stk pending: every async
\* function awaiting the call rejects in its turn; the catch of
\* initializeKeyManager logs it and the function returns undefined.
Throw(p, stk) ==
    /\ pc' = [pc EXCEPT ![p] = IF Unwound(stk) = <<>> THEN "done"
                                ELSE Head(Unwound(stk))]
    /\ stack' = [stack EXCEPT ![p] = IF Unwound(stk) = <<>> THEN <<>>
                                      ELSE Tail(Unwound(stk))]
    /\ result' = [result EXCEPT ![p] = IF Caught(stk) THEN NoResult
                                        ELSE ErrorResult]

\* Line 214: generateHmacKey throws while the new record is built; nothing
\* was put in the cache yet.
GocAbsentKRandomFailed(p) ==
    /\ IsNext(p)
    /\ pc[p] = "goc_absent"
    /\ randomFaults > 0
    /\ randomFaults' = randomFaults - 1
    /\ Throw(p, stack[p])
    /\ obs' = [obs EXCEPT ![p].randomFailed = TRUE,
                          ![p].before = Cached(customerId[p]),
                          ![p].after = Cached(customerId[p])]
    /\ UNCHANGED <<client, now, hasHandler, faults, tenants, cache, heap, store,
                   nextKey, budget, ticks, op, customerId, arg, keyPair, ioData,
                   hist>>
    /\ Ran(p)

\* Line 111: generateHmacKey throws after lines 103-108 changed the
\* record's previous list in place.
RotKRandomFailed(p) ==
    /\ IsNext(p)
    /\ pc[p] = "rot_k"
    /\ arg[p].newKey = EmptyKey
    /\ randomFaults > 0
    /\ randomFaults' = randomFaults - 1
    /\ LET o == keyPair[p]
           rec == [heap[o] EXCEPT !.previous = PushPrevious(heap[o])]
       IN  /\ keyPair' = [keyPair EXCEPT ![p] = NoObj]
           /\ heap' = Collect([heap EXCEPT ![o] = rec], cache, keyPair')
           /\ obs' = [obs EXCEPT ![p].randomFailed = TRUE,
                                 ![p].before = heap[o],
                                 ![p].after = rec]
    /\ Throw(p, stack[p])
    /\ UNCHANGED <<client, now, hasHandler, faults, tenants, cache, store,
                   nextKey, budget, ticks, op, customerId, arg, ioData, hist>>
    /\ Ran(p)

\* ------------------------------------------------- new RapydClient(...)
\* Lines 24-48 of the client: a constructor invocation sets its fields and
\* its interceptor and evaluates `new PaymentMethodsService(...)`.  That
\* class (src/src/services/payment-method.ts, line 5) declares no
\* constructor, so RapydClient's runs again, one frame deeper; the same
\* holds for PaymentService (line 49), which no invocation gets to.
Construct ==
    /\ ~client.thrown
    /\ client.frames < MaxCallStack
    /\ client' = [client EXCEPT !.frames = @ + 1]
    /\ UNCHANGED <<randomFaults, now, hasHandler, faults, tenants, cache, heap,
                   store, nextKey, budget, ticks, pc, stack, op, customerId,
                   arg, keyPair, ioData, result, ready, syncBlock, obs, hist>>

\* The call stack is full: the engine throws a RangeError, which no frame
\* catches, out of `new RapydClient`.
RangeError ==
    /\ ~client.thrown
    /\ client.frames = MaxCallStack
    /\ client' = [client EXCEPT !.thrown = TRUE]
    /\ UNCHANGED <<randomFaults, now, hasHandler, faults, tenants, cache, heap,
                   store, nextKey, budget, ticks, pc, stack, op, customerId,
                   arg, keyPair, ioData, result, ready, syncBlock, obs, hist>>

\* ------------------------------------------------------------------- Next
GocStep(p) ==
    \/ GocGetFound(p)
    \/ GocGetMissing(p)
    \/ GocGetFailed(p)
    \/ GocFoundK(p)
    \/ GocAbsentK(p)
    \/ GocRet(p)
    \/ SaveSetOk(p)
    \/ SaveSetFailed(p)
    \/ SaveRet(p)

RotateStep(p) ==
    \/ StartRotate(p)
    \/ RotK(p)
    \/ RotRet(p)

ReadStep(p) ==
    \/ StartGetActive(p)
    \/ GetActiveK(p)
    \/ StartVerify(p)
    \/ VerK(p)

ExpireStep(p) ==
    \/ StartDelete(p)
    \/ DelK(p)
    \/ DelSetOk(p)
    \/ DelSetFailed(p)
    \/ DelRet(p)
    \/ StartCheck(p)
    \/ CarDelK(p)
    \/ CarGocK(p)
    \/ CarRotK(p)

Next ==
    \/ Tick
    \/ \E p \in Callers : GocStep(p) \/ RotateStep(p) \/ ReadStep(p) \/ ExpireStep(p)

NextConc ==
    \E p \in Callers : GocStep(p) \/ RotateStep(p) \/ ReadStep(p) \/ ExpireStep(p)

ClientStep(p) ==
    \/ StartInit(p)
    \/ StartRequest(p)
    \/ GetActiveK(p)
    \/ InitKeyK(p)
    \/ DelK(p)
    \/ DelSetOk(p)
    \/ DelSetFailed(p)
    \/ DelRet(p)
    \/ CarDelK(p)
    \/ CarGocK(p)
    \/ RotK(p)
    \/ RotRet(p)
    \/ CarRotK(p)
    \/ InitDoneK(p)
    \/ SignK(p)

NextClient ==
    \E p \in Callers : GocStep(p) \/ ClientStep(p)

NextAged ==
    \E p \in Callers :
        \/ GocStep(p)
        \/ StartGetActive(p)
        \/ GetActiveK(p)
        \/ StartDeleteDefault(p)
        \/ DelK(p)
        \/ DelSetOk(p)
        \/ DelSetFailed(p)
        \/ DelRet(p)

NextRot ==
    \E p \in Callers : GocStep(p) \/ RotateStep(p) \/ ReadStep(p)

\* Concurrent request paths, every operation.
Spec == Init /\ [][NextConc]_vars
\* One request path, every operation.
SpecSeq == InitSeq /\ [][Next]_vars
\* One request path, a sequence of rotations with reads and verifications.
SpecRot == InitRot /\ [][NextRot]_vars

\* Concurrent request paths on two customers, every operation.
SpecTenants == InitTenants /\ [][NextConc]_vars
\* One request path reading and expiring an aged record.
SpecAged == InitAged /\ [][NextAged]_vars
\* A RapydClient: its constructor's initialization and its requests.
SpecClient == InitClient /\ [][NextClient]_vars

NextRandom ==
    \E p \in Callers :
        \/ GocStep(p)
        \/ ClientStep(p)
        \/ GocAbsentKRandomFailed(p)
        \/ RotKRandomFailed(p)

NextCtor == Construct \/ RangeError

\* The evaluation of `new RapydClient(...)`.
SpecCtor == InitCtor /\ [][NextCtor]_vars

\* A RapydClient whose key generation may fail.
SpecRandom == InitRandom /\ [][NextRandom]_vars

\* ------------------------------------------------------------- properties
Done(p, name) == pc[p] = "done" /\ op[p] = name
Count(s, k) == Cardinality({i \in 1 .. Len(s) : s[i] = k})
Before(s, j, k) == \E i \in 1 .. Len(s) : \E n \in 1 .. Len(s) :
                       i < n /\ s[i] = j /\ s[n] = k

\* Both request paths have completed rotateHmacKey(t) with a generated key
\* and no storage request of either failed.
BothRotated(t) ==
    \A p \in Callers :
        /\ Done(p, "rotateHmacKey")
        /\ customerId[p] = t
        /\ ~arg[p].newKeyGiven
        /\ ~obs[p].getFailed
        /\ ~obs[p].createSaveFailed
        /\ ~obs[p].rotateSaveFailed

\* C1: after two concurrent rotateHmacKey calls for one tenant have both
\* completed, one of them was the first and the other the last: the cached
\* record's active key is the last one's, and its previous list holds the
\* first one's new key and the key that was active before the first one,
\* each exactly once, the newer before the older.
LostRotation ==
    \A t \in tenants :
        BothRotated(t) =>
            \E p \in Callers : \E q \in Callers \ {p} :
                LET final == Cached(t)
                    first == obs[p].after.active
                    base == obs[p].before.active
                IN  /\ final.active = obs[q].after.active
                    /\ Count(final.previous, first) = 1
                    /\ Count(final.previous, base) = 1
                    /\ Before(final.previous, first, base)

\* C2: when saveKeyPair's storage request failed in a completed
\* rotateHmacKey, the cached record is the one from before the rotation; when
\* it failed while getActiveHmacKey created the record, the cache holds no
\* record, as before the call.
CacheAdvancedOnFailedSet ==
    \A p \in Callers :
        /\ (Done(p, "rotateHmacKey") /\ obs[p].rotateSaveFailed
               /\ ~obs[p].createSaveFailed /\ ~obs[p].getFailed)
            => Cached(customerId[p]) = obs[p].before
        /\ (Done(p, "getActiveHmacKey") /\ obs[p].createSaveFailed)
            => Cached(customerId[p]) = obs[p].pre

\* C3: a completed rotateHmacKey or checkAndRotateIfDue in which the store
\* write of the rotation or the store delete failed has an error as its
\* result, not a key or a boolean.
FailureNotPropagated ==
    \A p \in Callers :
        (/\ pc[p] = "done"
         /\ op[p] \in {"rotateHmacKey", "checkAndRotateIfDue"}
         /\ (obs[p].rotateSaveFailed \/ obs[p].deleteFailed))
            => result[p].kind = "error"

\* C4: no key of a record that was deleted as expired is in the cached or
\* the stored record of its tenant afterwards (unless a caller passed that
\* key to rotateHmacKey again).
Resurrection ==
    \A t \in Tenants :
        (KeysOf(Cached(t)) \cup KeysOf(store[t])) \cap hist.buried[t] = {}

\* C5: a completed checkAndRotateIfDue that found the record expired left no
\* record in the cache or the store and rotated nothing; else one that found
\* a rotation due rotated exactly once; else it left the record as it was.
CheckOrder ==
    \A p \in Callers :
        Done(p, "checkAndRotateIfDue") =>
            LET t == customerId[p]
            IN  IF obs[p].expired
                THEN /\ Cached(t) = NullKeyPair
                     /\ store[t] = NullKeyPair
                     /\ obs[p].rotations = 0
                ELSE IF obs[p].due
                THEN obs[p].rotations = 1
                ELSE /\ obs[p].rotations = 0
                     /\ Cached(t) = obs[p].judged

\* C6: the previous list of every cached and every stored record has at most
\* MaxPrevious entries, and a rotation of a record whose list is full keeps
\* the old active key and all but the last of the old entries.
PreviousBounded ==
    /\ \A t \in Tenants :
        /\ Len(Cached(t).previous) <= MaxPrevious
        /\ Len(store[t].previous) <= MaxPrevious
    /\ \A p \in Callers :
        (obs[p].rotations > 0 /\ Len(obs[p].before.previous) = MaxPrevious)
            => obs[p].after.previous =
                   <<obs[p].before.active>>
                       \o SubSeq(obs[p].before.previous, 1, MaxPrevious - 1)

\* A rotation of a record with a full previous list has completed.
FullListRotated ==
    \E p \in Callers :
        /\ Done(p, "rotateHmacKey")
        /\ Len(obs[p].before.previous) = MaxPrevious
        /\ Cached(customerId[p]) = obs[p].after

\* C7: after n rotations of a record (the keys that were active since it was
\* created, newest first, are hist.lineage: n + 1 of them), its active key is
\* the newest of them and previous is the min(n, MaxPrevious) next ones in
\* that order.
PreviousIsRecentHistory ==
    \A t \in Tenants :
        (cache[t] # NoObj /\ hist.lineage[t] # <<>>) =>
            /\ Cached(t).active = Head(hist.lineage[t])
            /\ Cached(t).previous = Take(Tail(hist.lineage[t]), MaxPrevious)

\* More rotations than previous has room for have completed.
RotatedPastCapacity ==
    \E p \in Callers :
        /\ Done(p, "rotateHmacKey")
        /\ Len(hist.lineage[customerId[p]]) > MaxPrevious + 1
        /\ Len(Cached(customerId[p]).previous) = MaxPrevious

\* C8: when rotateHmacKey(t, newKey) has completed, the record's active key
\* is newKey if one was passed and a key the record did not hold otherwise,
\* its timestamp is the time of the rotation, the store (if there is one) and
\* the cache hold the record, and the call returned its active key.
RotateContract ==
    \A p \in Callers :
        Done(p, "rotateHmacKey") =>
            LET t == customerId[p]
                kp == Cached(t)
            IN  /\ arg[p].newKey # EmptyKey => kp.active = arg[p].newKey
                /\ arg[p].newKey = EmptyKey =>
                       kp.active \notin KeysOf(obs[p].before)
                /\ kp.timestamp = obs[p].after.timestamp
                /\ hasHandler => store[t] = kp
                /\ result[p] = KeyResult(kp.active)

\* C9: when rotateHmacKey has completed, the key that was active before is
\* the head of previous, and signatures of any message made with it or with
\* the new active key verify; a verifySignature call that follows the
\* rotation with such a signature returns true.
OldAndNewVerify ==
    /\ \A p \in Callers :
        Done(p, "rotateHmacKey") =>
            LET kp == Cached(customerId[p])
                oldActive == obs[p].before.active
            IN  /\ kp.previous # <<>>
                /\ kp.previous[1] = oldActive
                /\ kp.active = obs[p].after.active
                /\ \A m \in Msgs :
                    /\ Verify(kp, m, HmacHex(oldActive, m))
                    /\ Verify(kp, m, HmacHex(kp.active, m))
    /\ \A p \in Callers :
        (/\ Done(p, "verifySignature")
         /\ hist.lastRot.valid
         /\ hist.lastRot.tenant = customerId[p]
         /\ arg[p].signature \in {HmacHex(hist.lastRot.old, arg[p].data),
                                  HmacHex(hist.lastRot.new, arg[p].data)})
            => result[p] = BoolResult(TRUE)

\* verifySignature accepted a signature made with the key a rotation replaced.
OldKeyVerified ==
    \E p \in Callers :
        /\ Done(p, "verifySignature")
        /\ hist.lastRot.valid
        /\ hist.lastRot.old # hist.lastRot.new
        /\ arg[p].signature = HmacHex(hist.lastRot.old, arg[p].data)
        /\ result[p] = BoolResult(TRUE)

\* The record of t was rotated 6 times since it was created; KeyOfRotation(t, i)
\* is the key rotation #i made active, and KeyOfRotation(t, 0) the key that
\* was active before rotation #1.
SixRotations(t) == Len(hist.lineage[t]) = 6 + 1
KeyOfRotation(t, i) == hist.lineage[t][Len(hist.lineage[t]) - i]
LaterKeys(t, i) == Range(Take(hist.lineage[t], Len(hist.lineage[t]) - i - 1))

\* A completed verifySignature(t, data, signature) after 6 rotations of t,
\* the signature made for data with key k.
VerifiedAfterSix(p, k) ==
    /\ Done(p, "verifySignature")
    /\ SixRotations(customerId[p])
    /\ arg[p].signature = HmacHex(k, arg[p].data)

\* C10 as stated: after 6 rotations verifySignature returns false for a
\* signature made with the key of rotation #1 and true for one made with the
\* key of rotation #2.
FirstRotationKeyRejected ==
    \A p \in Callers :
        LET t == customerId[p]
        IN  /\ (/\ SixRotations(t)
                /\ VerifiedAfterSix(p, KeyOfRotation(t, 1))
                /\ KeyOfRotation(t, 1) \notin LaterKeys(t, 1))
                => result[p] = BoolResult(FALSE)
            /\ (SixRotations(t) /\ VerifiedAfterSix(p, KeyOfRotation(t, 2)))
                => result[p] = BoolResult(TRUE)

\* C10 amended: after 6 rotations verifySignature returns true for a
\* signature made with the key of rotation #1 or of rotation #2, and false for
\* one made with the key that was active before rotation #1, unless one of
\* the rotations made that key active again.
InitialKeyRejected ==
    \A p \in Callers :
        LET t == customerId[p]
        IN  /\ (SixRotations(t) /\ VerifiedAfterSix(p, KeyOfRotation(t, 1)))
                => result[p] = BoolResult(TRUE)
            /\ (SixRotations(t) /\ VerifiedAfterSix(p, KeyOfRotation(t, 2)))
                => result[p] = BoolResult(TRUE)
            /\ (/\ SixRotations(t)
                /\ VerifiedAfterSix(p, KeyOfRotation(t, 0))
                /\ KeyOfRotation(t, 0) \notin LaterKeys(t, 0))
                => result[p] = BoolResult(FALSE)

\* After 6 rotations a signature made with the key of rotation #1, which no
\* other rotation made active, was accepted.
FirstRotationKeyAccepted ==
    \E p \in Callers :
        LET t == customerId[p]
        IN  /\ SixRotations(t)
            /\ VerifiedAfterSix(p, KeyOfRotation(t, 1))
            /\ KeyOfRotation(t, 1) \notin LaterKeys(t, 1) \cup {KeyOfRotation(t, 0)}
            /\ result[p] = BoolResult(TRUE)

VerifyAlwaysBoolean ==
    \A p \in Callers :
        Done(p, "verifySignature") =>
            /\ result[p].kind = "bool"
            /\ FromHex(arg[p].signature).length # DigestBytes
                   => result[p] = BoolResult(FALSE)

\* verifySignature finished on a signature of another length than the
\* digest while the record held previous keys to go through.
MalformedSignatureRejected ==
    \E p \in Callers :
        /\ Done(p, "verifySignature")
        /\ arg[p].signature.form \in {"truncated", "malformed"}
        /\ Cached(customerId[p]).previous # <<>>
        /\ result[p] = BoolResult(FALSE)

\* C13: two getActiveHmacKey calls on a customer, one after the other with no
\* other operation between them, return the same key, also when the first
\* of them created the record, with a storage handler or without.
ConsecutiveGetsAgree ==
    \A t \in Tenants :
        Len(hist.gets[t]) = 2 => hist.gets[t][1] = hist.gets[t][2]

\* The second of two such calls has returned, the first having found neither
\* a cached nor a stored record.
SecondGetAfterCreation ==
    \E p \in Callers :
        /\ Done(p, "getActiveHmacKey")
        /\ Len(hist.gets[customerId[p]]) = 2
        /\ budget[p] = MaxSeqCalls - 2
        /\ hist.lineage[customerId[p]] = <<result[p].key>>
        /\ result[p].key > BaseKey

\* C14: getOrCreateKeyPair, seen through getActiveHmacKey: on a cache hit
\* the cached record is returned and the store is not consulted; on a miss
\* with a storage handler whose 'get' answers, a stored record is cached
\* and returned, and where there is none a record is created and cached, and
\* it is in the store when the call returns.
CreatedRecordStored ==
    \A p \in Callers :
        Done(p, "getActiveHmacKey") =>
            LET t == customerId[p]
                kp == Cached(t)
            IN  /\ result[p] = KeyResult(kp.active)
                /\ obs[p].pre # NullKeyPair =>
                       kp = obs[p].pre /\ ~obs[p].getFailed
                /\ (obs[p].pre = NullKeyPair /\ hasHandler
                        /\ ~obs[p].getFailed) =>
                       store[t] = kp

\* C15: when the storage handler's 'get' fails, getOrCreateKeyPair issues no
\* 'set' for the record it creates, so the stored record is not overwritten,
\* and the caller is told of the failure.
NoSetAfterFailedGet ==
    \A p \in Callers :
        (op[p] = "getActiveHmacKey" /\ obs[p].getFailed) =>
            /\ pc[p] # "save_set"
            /\ pc[p] = "done" => result[p].kind = "error"

\* C16: for every customer, the timestamp of the record in the memory cache
\* never decreases from one cached record to the next, whatever the
\* interleaving of operations, the clock never going back.
CacheTimestampMonotone ==
    [][\A t \in Tenants :
          (cache[t] # NoObj /\ cache'[t] # NoObj) =>
              Cached(t)'.timestamp >= Cached(t).timestamp]_vars

\* C17: the string signRequest signs is the method in upper case, the path,
\* the salt, the timestamp, the access key and the body, in that order and
\* nothing else, the body being '' for a request without data; the secret
\* key is the HMAC key only.
SignedStringIsCanonical ==
    \A p \in Callers :
        Done(p, "request") =>
            LET sent == client.sent[p]
            IN  /\ sent.toSign =
                       Str(HttpMethod(arg[p].method)) \o Str(RequestPath)
                           \o Str(sent.salt) \o NumStr(sent.timestamp)
                           \o Str(AccessKey) \o Str(BodyOf(arg[p].body))
                /\ sent.signature = HmacHex(sent.signature.key, sent.toSign)

\* C18: a request the client signs once its key manager is initialized is
\* signed with the key that is the customer's active key in the key manager
\* when it is signed, also when the checkAndRotateIfDue of the
\* initialization rotated or deleted the key.
SignedWithActiveKey ==
    \A p \in Callers :
        Done(p, "request") =>
            client.sent[p].signature.key = client.sent[p].active

\* C19: a checkAndRotateIfDue call whose expiryDays is at most its
\* rotationDays rotates nothing, whether the storage handler's requests
\* succeed or fail: a record old enough to rotate is expired first.
NoRotationWhenExpiryFirst ==
    \A p \in Callers :
        (/\ op[p] = "checkAndRotateIfDue"
         /\ arg[p].expiryDays <= arg[p].rotationDays)
            => obs[p].rotations = 0

\* C20: checkAndRotateIfDue returns true when the call rotated the key or
\* deleted the key pair, and false when it did neither.
CheckResultTellsChange ==
    \A p \in Callers :
        Done(p, "checkAndRotateIfDue") =>
            result[p] = BoolResult(obs[p].rotations > 0
                                   \/ (obs[p].expired /\ ~obs[p].deleteFailed))

\* C21: deleteKeyPairIfExpired called without expiryDays deletes the key
\* pair only when it is at least 365 days old, the default its doc comment
\* names; a record between 90 and 365 days old is kept.
DefaultDeleteAfterYear ==
    \A p \in Callers :
        (/\ op[p] = "deleteKeyPairIfExpired"
         /\ ~arg[p].expiryGiven
         /\ obs[p].expired)
            => now - obs[p].judged.timestamp >= DaysToClock(DocumentedExpiryDays)

\* What the key manager holds for a customer: the cached record and the
\* stored one.
TenantRecord(t) == [cached |-> Cached(t), stored |-> store[t]]
\* The request path p took this step.
Stepped(p) ==
    \/ pc'[p] # pc[p]
    \/ stack'[p] # stack[p]
    \/ budget'[p] # budget[p]

\* C22: customers are independent: a step of an operation invoked for one
\* customer leaves every other customer's record as it was, in the cache and
\* in the store, and the operation holds no other customer's record.
TenantsIndependent ==
    [][\A p \in Callers :
           Stepped(p) =>
               \A u \in Tenants \ {customerId'[p]} :
                   /\ TenantRecord(u)' = TenantRecord(u)
                   /\ keyPair'[p] # NoObj => cache'[u] # keyPair'[p]]_vars
\* One customer's key was rotated while the other's record sat in the cache
\* untouched.
RotatedBesideOtherTenant ==
    \E p, q \in Callers :
        /\ Done(p, "rotateHmacKey") /\ customerId[p] = "a"
        /\ Done(q, "getActiveHmacKey") /\ customerId[q] = "b"
        /\ obs[p].rotations > 0
        /\ Cached("a").active # BaseKey
        /\ TenantRecord("b") = [cached |-> BaseKeyPair(MaxPrevious),
                                 stored |-> BaseKeyPair(MaxPrevious)]

\* C23: when crypto.randomBytes throws, the operation that needed the key
\* ends in an error its caller sees, the customer's record is as it was
\* before, and the client does not go on to sign the request.
RandomFailureAborts ==
    \A p \in Callers :
        obs[p].randomFailed =>
            /\ obs[p].after = obs[p].before
            /\ pc[p] # "sign_k"
            /\ pc[p] = "done" => result[p] = ErrorResult

\* C24: while a customer's record stays in the cache, its active key changes
\* only by a rotation: a step that takes the cached active key from x to y
\* is a rotation's, and x is the head of previous in the record it leaves.
ActiveChangesByRotation ==
    [][\A t \in Tenants :
           (/\ Cached(t) # NullKeyPair
            /\ Cached(t)' # NullKeyPair
            /\ Cached(t)'.active # Cached(t).active)
               => /\ \E p \in Callers : obs'[p].rotations = obs[p].rotations + 1
                  /\ Cached(t)'.previous # <<>>
                  /\ Head(Cached(t)'.previous) = Cached(t).active]_vars

\* C25: two concurrent getActiveHmacKey calls for a customer with no record
\* in the cache or the store, with a storage handler that does not fail,
\* create one record: both return the same key, the active key of the
\* record the cache and the store are left with.
ConcurrentGetsCreateOnce ==
    (/\ hasHandler
     /\ \A p \in Callers :
            /\ Done(p, "getActiveHmacKey")
            /\ obs[p].pre = NullKeyPair
            /\ ~obs[p].getFailed /\ ~obs[p].createSaveFailed
     \* a call that found a stored record returns its key, BaseKey
     /\ \A p \in Callers : result[p].key # BaseKey)
        => /\ result["c1"] = result["c2"]
           /\ Cached("a").active = result["c1"].key
           /\ store["a"].active = result["c1"].key

\* C26: the constructor's initializeKeyManager and the first request's run
\* checkAndRotateIfDue on a stored record that is due for rotation and not
\* expired; with a storage handler that does not fail the key is rotated
\* once: one of the two calls rotates and previous grows by one entry.
ConcurrentChecksRotateOnce ==
    (/\ hasHandler
     /\ faults = MaxConcFaults
     /\ now = DaysToClock(ClientRotationDays)
     /\ Done("c1", "initializeKeyManager")
     /\ Done("c2", "request")
     /\ budget["c2"] = MaxRequests - 1
     \* the record the store held at first is the one in the cache
     /\ BaseKey \in KeysOf(Cached(AccessKey)))
        => /\ obs["c1"].rotations + obs["c2"].rotations = 1
           /\ Cached(AccessKey).previous = <<BaseKey>>

\* No operation is in flight.
Quiescent == \A p \in Callers : pc[p] \in {"idle", "done"}

\* C27: when no operation is in flight and no request to the storage handler
\* has failed, the store holds, for every customer in the cache, a record
\* with the cached record's active key, previous list and timestamp.
QuiescentCacheIsStored ==
    (Quiescent /\ hasHandler /\ faults = MaxConcFaults)
        => \A t \in Tenants : cache[t] # NoObj => store[t] = Cached(t)

\* C28: deleteKeyPairIfExpired returns true exactly when the customer's
\* record is gone from the cache and from the store; when it returns false
\* the record it judged is still the cached one.
DeleteResultTellsRemoval ==
    \A p \in Callers :
        Done(p, "deleteKeyPairIfExpired") =>
            LET t == customerId[p]
                removed == cache[t] = NoObj /\ store[t] = NullKeyPair
            IN  /\ result[p] = BoolResult(removed)
                /\ result[p] = BoolResult(FALSE) => Cached(t) = obs[p].judged

\* C29: once every initializeKeyManager call made so far has failed, the
\* client's secretKey is the one its constructor was given, and the request
\* whose initialization failed was signed with that key.
FailedInitKeepsProvidedSecret ==
    (/\ Quiescent
     /\ ~client.initialized
     /\ \E p \in Callers : obs[p].randomFailed)
        => /\ client.secretKey = ProvidedSecret
           /\ \A p \in Callers :
                  (obs[p].randomFailed /\ op[p] = "request")
                      => client.sent[p].signature.key = ProvidedSecret

\* C30: `new RapydClient(accessKey, secretKey)` completes: the constructor
\* invocations it makes come to an end before the call stack is exhausted,
\* so it never ends in a RangeError.
ConstructionCompletes == ~client.thrown

====
